---- MODULE Spec2Model ----
(***************************************************************************)
(* A model of the video labeling tool: the label ledger (CSVManager), the  *)
(* segment-selection workflow and the review session of VideoLabelingApp,  *)
(* and the clip extractor it calls.                                        *)
(*                                                                         *)
(* Five specifications are given.  LedgerSpec drives the CSVManager        *)
(* methods directly, with arbitrary arguments, on a store that may hold    *)
(* rows from an earlier run; ReaderSpec adds reads that fail part-way.     *)
(* Spec is the application: the reviewer's actions and the player's        *)
(* callbacks dispatched to the handlers of VideoLabelingApp.               *)
(* ExtractorSpec calls extract_failure_clip directly on a _failures        *)
(* directory that may hold clips, and ScannerSpec runs scan_directory on   *)
(* a directory tree.                                                       *)
(***************************************************************************)
EXTENDS Integers, Sequences, FiniteSets, TLC

VARIABLES
    csv_exists,       \* the ledger file exists on disk
    csv_rows,         \* its records, in file order; a record is its fields
    manager,          \* a CSVManager has been constructed on the file
    hist,             \* history: arguments of the completed write_* calls
    histValid,        \* hist is the whole history of the store
    last,             \* the call or handler that ran last, and its outcome
    phase,            \* "startup" (start dialog open), "review", "closed"
    _video_queue,     \* VideoLabelingApp._video_queue
    _current_index,   \* VideoLabelingApp._current_index
    _current_video,   \* VideoLabelingApp._current_video
    _segment_mode,    \* VideoLabelingApp._segment_mode
    _segment_start,   \* VideoLabelingApp._segment_start
    _segment_end,     \* VideoLabelingApp._segment_end
    playing,          \* the player is in PlayingState
    clips,            \* the files present in the _failures directory
    extraction        \* the extract_failure_clip call in progress, or None

storage == <<csv_exists, csv_rows>>
segment == <<_segment_mode, _segment_start, _segment_end>>
cursor == <<_video_queue, _current_index, _current_video>>
appVars == <<phase, _video_queue, _current_index, _current_video, _segment_mode,
             _segment_start, _segment_end, playing, clips, extraction>>
vars == <<csv_exists, csv_rows, manager, hist, histValid, last, phase,
          _video_queue, _current_index, _current_video, _segment_mode,
          _segment_start, _segment_end, playing, clips, extraction>>

(***************************************************************************)
(* Bounds of the model.                                                    *)
(***************************************************************************)
MaxRows == 3

(***************************************************************************)
(* Python's Optional: None, or a value.                                    *)
(***************************************************************************)
None == <<>>
Some(x) == <<x>>
Val(o) == o[1]

(***************************************************************************)
(* Paths used as inputs.                                                   *)
(***************************************************************************)
Videos == {"/r/a.mp4", "/r/b.mov", "/r//a.mp4"}
ClipArgs == {"", "/r/_failures/a_fail_0s-0s.mp4"}

(***************************************************************************)
(* The ledger file as an earlier run may have left it.  A record is the    *)
(* list of fields csv.reader yields for a line; the quoting of the csv     *)
(* module is lossless on fields, so a record written as [p, l, o] is read  *)
(* back as the strings <<p, str(l), o>>.                                   *)
(***************************************************************************)
PriorFiles ==
    { <<>>,
      << <<"/r/a.mp4", "1", "">> >>,
      << <<"/r/b.mov", "2">> >>,
      << <<"/r/a.mp4", "0", "/r/_failures/a_fail_0s-0s.mp4">>,
         <<"junk">>,
         <<"/r/b.mov", "2", "">> >>,
      << <<"/r/a.mp4", "1", "">>,
         <<"/r/b.mov", "pass", "">> >>,
      << <<"/r/./b.mov", "1", "">> >> }

(***************************************************************************)
(* int(s) on the label field: the integer, or None for ValueError.         *)
(***************************************************************************)
IntLiterals == -1 .. 9

int(s) ==
    IF \E n \in IntLiterals : ToString(n) = s
    THEN Some(CHOOSE n \in IntLiterals : ToString(n) = s)
    ELSE None

(***************************************************************************)
(* CSVManager._ensure_file_exists: touch the file when it is absent.       *)
(***************************************************************************)
_ensure_file_exists ==
    /\ csv_exists' = TRUE
    /\ csv_rows' = IF csv_exists THEN csv_rows ELSE <<>>

(***************************************************************************)
(* CSVManager.get_all_entries.  The loop over the reader's rows: a row     *)
(* with fewer than two fields is skipped; int() raising ValueError leaves  *)
(* the loop through "except Exception: pass", so the entries read so far   *)
(* are returned.                                                           *)
(***************************************************************************)
RECURSIVE ReadEntries(_, _)
ReadEntries(rows, entries) ==
    IF rows = <<>> THEN entries
    ELSE LET row == Head(rows) IN
         IF Len(row) >= 2
         THEN IF int(row[2]) = None
              THEN entries
              ELSE ReadEntries(Tail(rows),
                       Append(entries,
                              << row[1],
                                 Val(int(row[2])),
                                 IF Len(row) > 2 /\ row[3] # ""
                                 THEN Some(row[3]) ELSE None >>))
         ELSE ReadEntries(Tail(rows), entries)

EntriesOf(exists, rows) ==
    IF ~exists THEN <<>> ELSE ReadEntries(rows, <<>>)

get_all_entries == EntriesOf(csv_exists, csv_rows)

(***************************************************************************)
(* CSVManager._append_row: open(csv_path, 'a') and writerow.  io is the    *)
(* outcome of the file operation: "ok", or "error" when open raises        *)
(* (OSError), which leaves the file as it was and propagates.              *)
(***************************************************************************)
WriteOutcomes == {"ok", "error"}

_append_row_w(video_path, label, output_path, io) ==
    IF io = "ok"
    THEN /\ csv_exists' = TRUE
         /\ csv_rows' = <<<<video_path, ToString(label), output_path>>>>
    ELSE UNCHANGED storage

_append_row(video_path, label, output_path, io) ==
    IF io = "ok"
    THEN /\ csv_exists' = TRUE
         /\ csv_rows' = Append(csv_rows,
                               <<video_path, ToString(label), output_path>>)
    ELSE UNCHANGED storage

write_pass(video_path, io) == _append_row(video_path, 1, "", io)

write_fail_nopath(video_path, clip_path, io) == _append_row(video_path, 0, "", io)

write_fail(video_path, clip_path, io) == _append_row(video_path, 0, clip_path, io)

write_uncertain(video_path, io) == _append_row(video_path, 2, "", io)

(***************************************************************************)
(* CSVManager.remove_last_entry: read the entries; with none, return None  *)
(* and leave the file alone; else pop the last and rewrite the file (open  *)
(* 'w') from the remaining entries.  io is the outcome of the rewrite:     *)
(* "ok"; "error" when open raises, which leaves the file as it was; or     *)
(* "truncated" when open has emptied the file and the rows, buffered until *)
(* the file is closed, do not reach it (the flush raises, or the process   *)
(* ends inside the with block).  An exception propagates.  RemovedEntry is *)
(* the value returned.                                                     *)
(***************************************************************************)
RewriteOutcomes == {"ok", "error", "truncated"}

Front(s) == SubSeq(s, 1, Len(s) - 1)
Last(s) == s[Len(s)]

RowOf(entry) ==
    << entry[1], ToString(entry[2]), IF entry[3] = None THEN "" ELSE Val(entry[3]) >>

RemovedEntry ==
    IF get_all_entries = <<>> THEN None ELSE Some(Last(get_all_entries))

remove_last_entry_keep(io) == UNCHANGED storage

remove_last_entry_first(io) ==
    IF get_all_entries = <<>> \/ io # "ok"
    THEN UNCHANGED storage
    ELSE LET entries == Tail(get_all_entries) IN
         /\ csv_exists' = TRUE
         /\ csv_rows' = [i \in 1 .. Len(entries) |-> RowOf(entries[i])]

remove_last_entry(io) ==
    IF get_all_entries = <<>> \/ io = "error"
    THEN UNCHANGED storage
    ELSE IF io = "truncated"
    THEN csv_exists' = TRUE /\ csv_rows' = <<>>
    ELSE LET entries == Front(get_all_entries) IN
         /\ csv_exists' = TRUE
         /\ csv_rows' = [i \in 1 .. Len(entries) |-> RowOf(entries[i])]

(***************************************************************************)
(* CSVManager.get_stats: read the entries and count them by label.         *)
(***************************************************************************)
StatsOf_swapped(entries) ==
    [total |-> Len(entries),
     passed |-> Cardinality({i \in 1 .. Len(entries) : entries[i][2] = 0}),
     failed |-> Cardinality({i \in 1 .. Len(entries) : entries[i][2] = 1}),
     uncertain |-> Cardinality({i \in 1 .. Len(entries) : entries[i][2] = 2})]

StatsOf(entries) ==
    [total |-> Len(entries),
     passed |-> Cardinality({i \in 1 .. Len(entries) : entries[i][2] = 1}),
     failed |-> Cardinality({i \in 1 .. Len(entries) : entries[i][2] = 0}),
     uncertain |-> Cardinality({i \in 1 .. Len(entries) : entries[i][2] = 2})]

get_stats == StatsOf(get_all_entries)

(***************************************************************************)
(* LedgerSpec: a caller constructs a CSVManager on the store and calls its *)
(* methods in any order with any arguments.                                *)
(***************************************************************************)
LedgerInit ==
    /\ \/ csv_exists = FALSE /\ csv_rows = <<>>
       \/ csv_exists = TRUE /\ csv_rows \in PriorFiles
    /\ manager = FALSE
    /\ hist = <<>>
    /\ histValid = (csv_rows = <<>>)
    /\ last = [op |-> "none", io |-> "ok", ret |-> None]
    /\ phase = "startup"
    /\ _video_queue = <<>>
    /\ _current_index = 0
    /\ _current_video = None
    /\ _segment_mode = FALSE
    /\ _segment_start = None
    /\ _segment_end = None
    /\ playing = FALSE
    /\ clips = {}
    /\ extraction = None

\* CSVManager(csv_path)
Open ==
    /\ _ensure_file_exists
    /\ manager' = TRUE
    /\ last' = [op |-> "open", io |-> "ok", ret |-> None]
    /\ UNCHANGED <<hist, histValid>>

Logged(args, io) ==
    /\ hist' = IF io = "ok" /\ histValid THEN Append(hist, args) ELSE hist
    /\ UNCHANGED histValid

CallWritePass ==
    \E v \in Videos, io \in WriteOutcomes :
        /\ manager /\ Len(csv_rows) < MaxRows
        /\ write_pass(v, io)
        /\ Logged(<<"write_pass", v, "">>, io)
        /\ last' = [op |-> "write_pass", io |-> io, ret |-> None]
        /\ UNCHANGED manager

CallWriteFail ==
    \E v \in Videos, c \in ClipArgs, io \in WriteOutcomes :
        /\ manager /\ Len(csv_rows) < MaxRows
        /\ write_fail(v, c, io)
        /\ Logged(<<"write_fail", v, c>>, io)
        /\ last' = [op |-> "write_fail", io |-> io, ret |-> None]
        /\ UNCHANGED manager

CallWriteUncertain ==
    \E v \in Videos, io \in WriteOutcomes :
        /\ manager /\ Len(csv_rows) < MaxRows
        /\ write_uncertain(v, io)
        /\ Logged(<<"write_uncertain", v, "">>, io)
        /\ last' = [op |-> "write_uncertain", io |-> io, ret |-> None]
        /\ UNCHANGED manager

CallRemoveLast ==
    \E io \in RewriteOutcomes :
        /\ manager
        /\ remove_last_entry(io)
        /\ last' = [op |-> "remove_last_entry",
                    io |-> IF get_all_entries = <<>> THEN "ok" ELSE io,
                    ret |-> IF io = "ok" THEN RemovedEntry ELSE None]
        /\ hist' = <<>>
        /\ histValid' = FALSE
        /\ UNCHANGED manager

LedgerNext ==
    \/ Open
    \/ CallWritePass
    \/ CallWriteFail
    \/ CallWriteUncertain
    \/ CallRemoveLast

LedgerSpec == LedgerInit /\ [][LedgerNext /\ UNCHANGED appVars]_vars

(***************************************************************************)
(* The catalog: what scan_directory returns for the root directory, sorted.*)
(***************************************************************************)
RootDir == "/r"
FAILURES_DIR == "_failures"
Catalog == <<"/r/a.mp4", "/r/b.mov", "/r/s/c.mkv">>

scan_directory == Catalog

\* Path(p).stem and Path(p).suffix of the catalog's files
PathStem(p) ==
    CASE p = "/r/a.mp4" -> "a" [] p = "/r/b.mov" -> "b" [] p = "/r/s/c.mkv" -> "c"

PathSuffix(p) ==
    CASE p = "/r/a.mp4" -> ".mp4" [] p = "/r/b.mov" -> ".mov" [] p = "/r/s/c.mkv" -> ".mkv"

(***************************************************************************)
(* os.path.normpath on the paths that occur in ledger files.               *)
(***************************************************************************)
normpath(p) ==
    CASE p = "/r/./b.mov" -> "/r/b.mov"
      [] p = "/r//a.mp4" -> "/r/a.mp4"
      [] OTHER -> p

(***************************************************************************)
(* CSVManager.get_labeled_videos: the normalized first field of every      *)
(* non-empty row.                                                          *)
(***************************************************************************)
LabeledOf_raw(exists, rows) ==
    IF ~exists THEN {}
    ELSE {rows[i][1] : i \in {j \in 1 .. Len(rows) : Len(rows[j]) >= 1}}

LabeledOf(exists, rows) ==
    IF ~exists THEN {}
    ELSE {normpath(rows[i][1]) : i \in {j \in 1 .. Len(rows) : Len(rows[j]) >= 1}}

get_labeled_videos == LabeledOf(csv_exists, csv_rows)

(***************************************************************************)
(* video_scanner.filter_unlabeled                                          *)
(***************************************************************************)
filter_unlabeled_all(all_videos, labeled_videos) == all_videos

filter_unlabeled(all_videos, labeled_videos) ==
    SelectSeq(all_videos, LAMBDA v : v \notin labeled_videos)

(***************************************************************************)
(* clip_extractor.generate_clip_filename                                   *)
(***************************************************************************)
generate_clip_filename(source_path, start_ms, end_ms) ==
    PathStem(source_path) \o "_fail_" \o ToString(start_ms \div 1000) \o "s-"
        \o ToString(end_ms \div 1000) \o "s" \o PathSuffix(source_path)

(***************************************************************************)
(* extract_failure_clip, lines 182-193: the output path in the failures    *)
(* directory; when it exists, the first of base_1, base_2, ... that does   *)
(* not.                                                                    *)
(***************************************************************************)
failures_dir(root_video_dir) == root_video_dir \o "/" \o FAILURES_DIR

RECURSIVE FreePath(_, _, _, _, _)
FreePath(dir, base, ext, counter, files) ==
    LET output_path == dir \o "/" \o base \o "_" \o ToString(counter) \o ext IN
    IF output_path \in files
    THEN FreePath(dir, base, ext, counter + 1, files)
    ELSE output_path

OutputPath_base(source_path, root_video_dir, start_ms, end_ms, files) ==
    failures_dir(root_video_dir) \o "/"
        \o generate_clip_filename(source_path, start_ms, end_ms)

OutputPath(source_path, root_video_dir, start_ms, end_ms, files) ==
    LET dir == failures_dir(root_video_dir)
        base == PathStem(source_path) \o "_fail_" \o ToString(start_ms \div 1000)
                    \o "s-" \o ToString(end_ms \div 1000) \o "s"
        output_path == dir \o "/" \o generate_clip_filename(source_path, start_ms, end_ms)
    IN  IF output_path \in files
        THEN FreePath(dir, base, PathSuffix(source_path), 1, files)
        ELSE output_path

(***************************************************************************)
(* clip_extractor.extract_clip.  tool gives what the environment does:     *)
(* whether ffmpeg is on the PATH, and how the stream-copy run and the      *)
(* re-encode run end ("ok": exit code 0, "nonzero", "timeout":             *)
(* TimeoutExpired, "exception": any other exception of subprocess.run).    *)
(* The result is the success flag and the runs made, in order.             *)
(***************************************************************************)
RunOutcomes == {"ok", "nonzero", "timeout", "exception"}

extract_clip(tool) ==
    IF ~tool.ffmpeg THEN [success |-> FALSE, runs |-> <<>>]
    ELSE IF tool.copy = "ok" THEN [success |-> TRUE, runs |-> <<"copy">>]
    ELSE IF tool.copy = "nonzero"
         THEN [success |-> tool.reencode = "ok", runs |-> <<"copy", "reencode">>]
    ELSE [success |-> FALSE, runs |-> <<"copy">>]

(***************************************************************************)
(* clip_extractor.extract_failure_clip: (success, clip_path).  The         *)
(* mkdir of get_failures_dir is outside any try: when it raises, so does   *)
(* extract_failure_clip (Raises).                                          *)
(***************************************************************************)
Tools ==
    [mkdir : {"ok", "error"}, ffmpeg : BOOLEAN, copy : RunOutcomes,
     reencode : RunOutcomes, leftover : BOOLEAN]

Raises(tool) == tool.mkdir = "error"

extract_failure_clip(source_path, root_video_dir, start_ms, end_ms, tool) ==
    LET output_path == OutputPath(source_path, root_video_dir, start_ms, end_ms, clips)
        res == extract_clip(tool)
    IN  [success |-> res.success,
         clip_path |-> IF res.success THEN Some(output_path) ELSE None,
         runs |-> res.runs,
         \* the file ffmpeg wrote: the clip, or what a failed run left behind
         written |-> IF res.success \/ (res.runs # <<>> /\ tool.leftover)
                     THEN {output_path} ELSE {}]

(***************************************************************************)
(* VideoLabelingApp: the handlers.                                         *)
(***************************************************************************)
Positions == {0, 100, 199, 500}     \* what player.get_position() may return
MaxClips == 2

\* an event loop that kept dispatching events during the blocking call
Free_loop == phase = "review"

Free == phase = "review" /\ extraction = None    \* the event loop takes events

Did(op, msg) == last' = [op |-> op, msg |-> msg]

\* Python's list[i]: i counts from 0, a negative i from the end of the list
Item(list, i) == IF i >= 0 THEN list[i + 1] ELSE list[Len(list) + i + 1]

_load_current_video_first(queue, index) ==
    /\ _current_index' = index
    /\ IF index >= Len(queue)
       THEN /\ phase' = "startup"
            /\ UNCHANGED <<_current_video, playing>>
       ELSE /\ phase' = "review"
            /\ _current_video' = Some(queue[1])
            /\ playing' = TRUE

\* _load_current_video, with self._video_queue = queue, self._current_index = index
_load_current_video(queue, index) ==
    /\ _current_index' = index
    /\ IF index >= Len(queue)
       THEN /\ phase' = "startup"       \* "Complete", _show_startup_dialog
            /\ UNCHANGED <<_current_video, playing>>
       ELSE /\ phase' = "review"          \* the main window takes the events
            /\ _current_video' = Some(Item(queue, index))
            /\ playing' = TRUE

_next_video_reload == _load_current_video(_video_queue, _current_index)

_next_video == _load_current_video(_video_queue, _current_index + 1)

\* the start dialog: "Select Video Directory" or "Load Existing CSV", then
\* CSVManager(csv_path) and _scan_and_load_videos
StartSession ==
    /\ phase = "startup"
    /\ _ensure_file_exists
    /\ manager' = TRUE
    /\ LET all_videos == scan_directory
           labeled == LabeledOf(TRUE, IF csv_exists THEN csv_rows ELSE <<>>)
           queue == filter_unlabeled(all_videos, labeled)
       IN  /\ _video_queue' = queue
           /\ IF queue = <<>>
              THEN /\ Did("start", "Complete")
                   /\ UNCHANGED <<phase, _current_index, _current_video, playing>>
              ELSE /\ Did("start", "")
                   /\ _load_current_video(queue, 0)
    /\ UNCHANGED <<hist, histValid, segment, clips, extraction>>

\* the start dialog: Cancel
Close ==
    /\ phase = "startup"
    /\ phase' = "closed"
    /\ Did("close", "")
    /\ UNCHANGED <<storage, manager, hist, histValid, cursor, segment, playing,
                   clips, extraction>>

_toggle_play_pause ==
    /\ Free
    /\ _current_video # None
    /\ playing' = ~playing
    /\ Did("play_pause", "")
    /\ UNCHANGED <<storage, manager, hist, histValid, phase, cursor, segment,
                   clips, extraction>>

\* _mark_pass without the test of _segment_mode
_mark_pass_ungated ==
    /\ Free
    /\ IF _current_video = None
       THEN /\ Did("pass", "ignored")
            /\ UNCHANGED <<storage, phase, cursor, playing>>
       ELSE \E io \in WriteOutcomes :
            /\ write_pass(Val(_current_video), io)
            /\ IF io = "ok"
               THEN /\ Did("pass", "")
                    /\ _next_video
                    /\ UNCHANGED _video_queue
               ELSE /\ Did("pass", "exception")
                    /\ UNCHANGED <<phase, cursor, playing>>
    /\ UNCHANGED <<manager, hist, histValid, segment, clips, extraction>>

_mark_pass ==
    /\ Free
    /\ IF _segment_mode \/ _current_video = None
       THEN /\ Did("pass", "ignored")
            /\ UNCHANGED <<storage, phase, cursor, playing>>
       ELSE \E io \in WriteOutcomes :
            /\ write_pass(Val(_current_video), io)
            /\ IF io = "ok"
               THEN /\ Did("pass", "")
                    /\ _next_video
                    /\ UNCHANGED _video_queue
               ELSE /\ Did("pass", "exception")
                    /\ UNCHANGED <<phase, cursor, playing>>
    /\ UNCHANGED <<manager, hist, histValid, segment, clips, extraction>>

\* write_uncertain(self._current_video, note) passes one argument more than
\* the method takes: TypeError, before anything is written
_mark_uncertain ==
    /\ Free
    /\ IF _segment_mode \/ _current_video = None
       THEN /\ Did("uncertain", "ignored")
            /\ UNCHANGED playing
       ELSE \E ok \in BOOLEAN :
            IF ok
            THEN /\ Did("uncertain", "exception")
                 /\ playing' = FALSE
            ELSE /\ Did("uncertain", "cancelled")
                 /\ playing' = TRUE
    /\ UNCHANGED <<storage, manager, hist, histValid, phase, cursor, segment,
                   clips, extraction>>

_enter_segment_mode ==
    /\ _segment_mode' = TRUE
    /\ _segment_start' = None
    /\ _segment_end' = None
    /\ playing' = FALSE

_exit_segment_mode_keep ==
    /\ _segment_mode' = FALSE
    /\ UNCHANGED <<_segment_start, _segment_end>>

_exit_segment_mode ==
    /\ _segment_mode' = FALSE
    /\ _segment_start' = None
    /\ _segment_end' = None

\* shutil.which("ffmpeg") is not None; which is what the environment answers
check_ffmpeg_ignored(which) == TRUE

check_ffmpeg_available(which) == which

_mark_fail ==
    /\ Free
    /\ IF _segment_mode \/ _current_video = None
       THEN /\ Did("fail", "ignored")
            /\ UNCHANGED <<segment, playing>>
       ELSE \E which \in BOOLEAN :
            IF ~check_ffmpeg_available(which)
            THEN /\ last' = [op |-> "fail", msg |-> "FFmpeg Not Found",
                             available |-> which]
                 /\ UNCHANGED <<segment, playing>>
            ELSE /\ last' = [op |-> "fail", msg |-> "", available |-> which]
                 /\ _enter_segment_mode
    /\ UNCHANGED <<storage, manager, hist, histValid, phase, cursor, clips,
                   extraction>>

_set_segment_start ==
    /\ Free
    /\ IF ~_segment_mode
       THEN /\ Did("set_start", "ignored")
            /\ UNCHANGED _segment_start
       ELSE \E position \in Positions :
            /\ _segment_start' = Some(position)
            /\ last' = [op |-> "set_start", msg |-> "", position |-> position]
    /\ UNCHANGED <<storage, manager, hist, histValid, phase, cursor,
                   _segment_mode, _segment_end, playing, clips, extraction>>

\* _set_segment_end writing the field of _set_segment_start
_set_segment_end_start ==
    /\ Free
    /\ IF ~_segment_mode
       THEN /\ Did("set_end", "ignored")
            /\ UNCHANGED _segment_start
       ELSE \E position \in Positions :
            /\ _segment_start' = Some(position)
            /\ last' = [op |-> "set_end", msg |-> "", position |-> position]
    /\ UNCHANGED <<storage, manager, hist, histValid, phase, cursor,
                   _segment_mode, _segment_end, playing, clips, extraction>>

_set_segment_end ==
    /\ Free
    /\ IF ~_segment_mode
       THEN /\ Did("set_end", "ignored")
            /\ UNCHANGED _segment_end
       ELSE \E position \in Positions :
            /\ _segment_end' = Some(position)
            /\ last' = [op |-> "set_end", msg |-> "", position |-> position]
    /\ UNCHANGED <<storage, manager, hist, histValid, phase, cursor,
                   _segment_mode, _segment_start, playing, clips, extraction>>

min(a, b) == IF a <= b THEN a ELSE b
max(a, b) == IF a >= b THEN a ELSE b

MinSegmentMs == 100

TooShort_le(start, end) == end - start <= MinSegmentMs

TooShort(start, end) == end - start < MinSegmentMs

Incomplete(start, end) == start = None \/ end = None

Range(a, b) == [start |-> min(a, b), end |-> max(a, b)]

\* the QMessageBox.warning and return of a failed validation
RejectConfirm_reset(msg) ==
    /\ Did("confirm", msg)
    /\ _segment_start' = None
    /\ _segment_end' = None
    /\ UNCHANGED <<_segment_mode, extraction>>

RejectConfirm(msg) ==
    /\ Did("confirm", msg)
    /\ UNCHANGED <<segment, extraction>>

\* the arguments of the extract_failure_clip call, r the range validated
ExtractArgs_fields(r) ==
    [source_path |-> Val(_current_video), root_video_dir |-> RootDir,
     start_ms |-> Val(_segment_start), end_ms |-> Val(_segment_end)]

ExtractArgs(r) ==
    [source_path |-> Val(_current_video), root_video_dir |-> RootDir,
     start_ms |-> r.start, end_ms |-> r.end]

\* _confirm_segment up to the call of extract_failure_clip
_confirm_segment ==
    /\ Free
    /\ Cardinality(clips) < MaxClips
    /\ IF ~_segment_mode
       THEN Did("confirm", "ignored") /\ UNCHANGED <<segment, extraction>>
       ELSE IF Incomplete(_segment_start, _segment_end)
       THEN RejectConfirm("Incomplete Segment")
       ELSE LET r == Range(Val(_segment_start), Val(_segment_end)) IN
            IF TooShort(r.start, r.end)
            THEN RejectConfirm("Segment Too Short")
            ELSE /\ Did("confirm", "Extracting clip...")
                 /\ extraction' = Some(ExtractArgs(r))
                 /\ UNCHANGED segment
    /\ UNCHANGED <<storage, manager, hist, histValid, phase, cursor, playing,
                   clips>>

\* the branch "if success and clip_path" of _confirm_segment
ConfirmSuccess_exitfirst(clip_path, io) ==
    /\ write_fail(Val(_current_video), clip_path, io)
    /\ _exit_segment_mode
    /\ IF io = "ok"
       THEN _next_video /\ UNCHANGED _video_queue
       ELSE UNCHANGED <<phase, cursor, playing>>

ConfirmSuccess(clip_path, io) ==
    /\ write_fail(Val(_current_video), clip_path, io)
    /\ IF io = "ok"
       THEN /\ _exit_segment_mode
            /\ _next_video
            /\ UNCHANGED _video_queue
       ELSE UNCHANGED <<phase, cursor, segment, playing>>

\* the else branch: "Extraction Failed"
ConfirmFailure_exit ==
    /\ _exit_segment_mode
    /\ UNCHANGED <<storage, phase, cursor, playing>>

ConfirmFailure == UNCHANGED <<storage, phase, cursor, segment, playing>>

\* extract_failure_clip runs and returns, and _confirm_segment goes on:
\* progress.close(), then the branch on the result.  When the call raises,
\* the handler is left before progress.close() and the "Extracting clip..."
\* dialog it showed stays open.
ExtractReturn ==
    /\ phase = "review"
    /\ extraction # None
    /\ extraction' = None
    /\ \E tool \in Tools :
       LET c == Val(extraction)
           res == extract_failure_clip(c.source_path, c.root_video_dir,
                                       c.start_ms, c.end_ms, tool)
       IN  IF Raises(tool)
           THEN /\ last' = [op |-> "extract", msg |-> "exception", arg |-> c,
                            success |-> FALSE, clip_path |-> None,
                            progress |-> "open"]
                /\ UNCHANGED <<storage, phase, cursor, segment, playing, clips>>
           ELSE /\ clips' = clips \cup res.written
                /\ IF res.success /\ res.clip_path # None /\ Val(res.clip_path) # ""
                   THEN \E io \in WriteOutcomes :
                        /\ ConfirmSuccess(Val(res.clip_path), io)
                        /\ last' = [op |-> "extract",
                                    msg |-> IF io = "ok" THEN "" ELSE "exception",
                                    arg |-> c, success |-> TRUE,
                                    clip_path |-> res.clip_path,
                                    progress |-> "closed"]
                   ELSE /\ last' = [op |-> "extract", msg |-> "Extraction Failed",
                                    arg |-> c, success |-> FALSE,
                                    clip_path |-> None,
                                    progress |-> "closed"]
                        /\ ConfirmFailure
    /\ UNCHANGED <<manager, hist, histValid>>

\* keyPressEvent: Escape reaches _cancel_segment in segment mode only, and the
\* Cancel button is in the segment frame, shown in segment mode only
_cancel_segment ==
    /\ Free
    /\ IF ~_segment_mode
       THEN /\ Did("cancel", "ignored")
            /\ UNCHANGED <<segment, playing>>
       ELSE /\ Did("cancel", "")
            /\ _exit_segment_mode
            /\ playing' = TRUE
    /\ UNCHANGED <<storage, manager, hist, histValid, phase, cursor, clips,
                   extraction>>

NoPrevious_negative == _current_index < 0

\* "You are at the first video."
NoPrevious == _current_index <= 0

_go_previous ==
    /\ Free
    /\ IF _segment_mode
       THEN /\ Did("previous", "ignored")
            /\ UNCHANGED <<storage, phase, cursor, playing>>
       ELSE IF NoPrevious
       THEN /\ Did("previous", "No Previous Video")
            /\ UNCHANGED <<storage, phase, cursor, playing>>
       ELSE \E io \in RewriteOutcomes :
            /\ remove_last_entry(io)
            /\ IF get_all_entries = <<>>
               THEN /\ Did("previous", "Cannot Go Back")
                    /\ UNCHANGED <<phase, cursor, playing>>
               ELSE IF io = "ok"
               THEN /\ Did("previous", "")
                    /\ _load_current_video(_video_queue, _current_index - 1)
                    /\ UNCHANGED _video_queue
               ELSE /\ Did("previous", "exception")
                    /\ UNCHANGED <<phase, cursor, playing>>
    /\ UNCHANGED <<manager, hist, histValid, segment, clips, extraction>>

(***************************************************************************)
(* The player fails on the video loaded.  VideoPlayer emits playback_error *)
(* from _on_error (QMediaPlayer.errorOccurred) and from                    *)
(* _on_media_status_changed (status InvalidMedia); for one file the player *)
(* may raise either signal or both, and the slot _on_playback_error runs   *)
(* once for each emission: the warning dialog, then _next_video.           *)
(***************************************************************************)
PlayerReports == { <<"error">>, <<"InvalidMedia">>, <<"error", "InvalidMedia">> }

\* _next_video run by the slot a second time, after its first run
NextVideoAgain ==
    /\ _current_index' = _current_index + 2
    /\ IF _current_index + 1 >= Len(_video_queue)
       THEN /\ phase' = "startup"
            /\ UNCHANGED <<_current_video, playing>>
       ELSE /\ playing' = TRUE
            /\ IF _current_index + 2 >= Len(_video_queue)
               THEN /\ phase' = "startup"
                    /\ _current_video' =
                          Some(Item(_video_queue, _current_index + 1))
               ELSE /\ phase' = "review"
                    /\ _current_video' =
                          Some(Item(_video_queue, _current_index + 2))

_on_playback_error ==
    /\ Free
    /\ _current_video # None
    /\ \E reports \in PlayerReports :
          /\ last' = [op |-> "playback_error", msg |-> "Playback Error",
                      reports |-> reports]
          /\ IF Len(reports) = 1 THEN _next_video ELSE NextVideoAgain
    /\ UNCHANGED <<storage, manager, hist, histValid, _video_queue, segment,
                   clips, extraction>>

(***************************************************************************)
(* Spec: the application.  Init is the state VideoLabelingApp.__init__     *)
(* leaves, with the start dialog about to open; the ledger file is absent  *)
(* or what an earlier run left, with the clips it names.                   *)
(***************************************************************************)
ClipsNamed(rows) ==
    {rows[i][3] : i \in {j \in 1 .. Len(rows) : Len(rows[j]) > 2 /\ rows[j][3] # ""}}

Init ==
    /\ \/ csv_exists = FALSE /\ csv_rows = <<>>
       \/ csv_exists = TRUE /\ csv_rows \in PriorFiles
    /\ manager = FALSE
    /\ hist = <<>>
    /\ histValid = FALSE
    /\ last = [op |-> "none", msg |-> ""]
    /\ phase = "startup"
    /\ _video_queue = <<>>
    /\ _current_index = 0
    /\ _current_video = None
    /\ _segment_mode = FALSE
    /\ _segment_start = None
    /\ _segment_end = None
    /\ playing = FALSE
    /\ clips = ClipsNamed(csv_rows)
    /\ extraction = None

Next ==
    \/ StartSession
    \/ Close
    \/ _toggle_play_pause
    \/ _mark_pass
    \/ _mark_uncertain
    \/ _mark_fail
    \/ _set_segment_start
    \/ _set_segment_end
    \/ _confirm_segment
    \/ ExtractReturn
    \/ _cancel_segment
    \/ _go_previous
    \/ _on_playback_error

Spec == Init /\ [][Next]_vars

(***************************************************************************)
(* ExtractorSpec: extract_failure_clip called directly, for any source     *)
(* video and range, in any environment, on a failures directory that may   *)
(* hold clips of earlier calls.  last records the call's outcome: the      *)
(* environment it met, whether it raised, and otherwise what it returned   *)
(* and the runs of the tool it made.                                       *)
(***************************************************************************)
PriorClips ==
    {"/r/_failures/a_fail_0s-0s.mp4", "/r/_failures/a_fail_0s-0s_1.mp4",
     "/r/_failures/a_fail_0s-0s_2.mp4"}

ExtractorInit ==
    /\ csv_exists = FALSE /\ csv_rows = <<>>
    /\ manager = FALSE
    /\ hist = <<>>
    /\ histValid = FALSE
    /\ last = [op |-> "none"]
    /\ phase = "startup"
    /\ _video_queue = <<>>
    /\ _current_index = 0
    /\ _current_video = None
    /\ _segment_mode = FALSE
    /\ _segment_start = None
    /\ _segment_end = None
    /\ playing = FALSE
    /\ clips \in SUBSET PriorClips
    /\ extraction = None

CallExtract ==
    /\ extraction = None
    /\ Cardinality(clips) <= MaxClips
    /\ \E source_path \in {"/r/a.mp4", "/r/s/c.mkv"}, start_ms, end_ms \in Positions :
          /\ start_ms < end_ms
          /\ extraction' = Some([source_path |-> source_path,
                                 root_video_dir |-> RootDir,
                                 start_ms |-> start_ms, end_ms |-> end_ms])
    /\ last' = [op |-> "call"]
    /\ UNCHANGED clips

ReturnExtract ==
    /\ extraction # None
    /\ extraction' = None
    /\ \E tool \in Tools :
       LET c == Val(extraction)
           res == extract_failure_clip(c.source_path, c.root_video_dir,
                                       c.start_ms, c.end_ms, tool)
       IN  IF Raises(tool)
           THEN /\ last' = [op |-> "extract_failure_clip", tool |-> tool,
                            raised |-> TRUE, success |-> FALSE,
                            clip_path |-> None, runs |-> <<>>]
                /\ UNCHANGED clips
           ELSE /\ last' = [op |-> "extract_failure_clip", tool |-> tool,
                            raised |-> FALSE, success |-> res.success,
                            clip_path |-> res.clip_path, runs |-> res.runs]
                /\ clips' = clips \cup res.written

ExtractorNext == CallExtract \/ ReturnExtract

ExtractorSpec ==
    ExtractorInit
    /\ [][ExtractorNext
          /\ UNCHANGED <<storage, manager, hist, histValid, phase, cursor,
                         segment, playing>>]_vars

(***************************************************************************)
(* video_scanner.scan_directory on a directory tree.  File and directory   *)
(* names are sequences of characters, so that suffix, lower, the path      *)
(* strings and their order are computed as Python computes them.  The tree *)
(* holds regular files only (no symbolic links), under an absolute root,   *)
(* so Path.resolve() returns the path it is given.                         *)
(***************************************************************************)
LowerLetters == <<"a", "b", "c", "d", "e", "f", "g", "h", "i", "j", "k", "l", "m",
                  "n", "o", "p", "q", "r", "s", "t", "u", "v", "w", "x", "y", "z">>
UpperLetters == <<"A", "B", "C", "D", "E", "F", "G", "H", "I", "J", "K", "L", "M",
                  "N", "O", "P", "Q", "R", "S", "T", "U", "V", "W", "X", "Y", "Z">>

IndexIn(letters, c) == CHOOSE i \in 1 .. Len(letters) : letters[i] = c
IsIn(letters, c) == \E i \in 1 .. Len(letters) : letters[i] = c

\* ord(c): the code point, which is what str comparison compares
ord(c) ==
    IF IsIn(LowerLetters, c) THEN 96 + IndexIn(LowerLetters, c)
    ELSE IF IsIn(UpperLetters, c) THEN 64 + IndexIn(UpperLetters, c)
    ELSE CASE c = "." -> 46 [] c = "/" -> 47 [] c = "3" -> 51 [] c = "4" -> 52
           [] c = "_" -> 95

\* str.lower()
lower(str) ==
    [i \in 1 .. Len(str) |->
        IF IsIn(UpperLetters, str[i])
        THEN LowerLetters[IndexIn(UpperLetters, str[i])] ELSE str[i]]

\* PurePath.suffix: from the last dot of the name, unless the name has no
\* dot or the last dot is its first or its last character
suffix(name) ==
    LET dots == {i \in 1 .. Len(name) : name[i] = "."} IN
    IF dots = {} THEN <<>>
    ELSE LET i == CHOOSE d \in dots : \A e \in dots : e <= d IN
         IF 1 < i /\ i < Len(name) THEN SubSeq(name, i, Len(name)) ELSE <<>>

VIDEO_EXTENSIONS ==
    { <<".", "m", "p", "4">>,
      <<".", "a", "v", "i">>,
      <<".", "m", "o", "v">>,
      <<".", "m", "k", "v">>,
      <<".", "w", "m", "v">>,
      <<".", "w", "e", "b", "m">>,
      <<".", "f", "l", "v">>,
      <<".", "m", "4", "v">>,
      <<".", "m", "p", "e", "g">>,
      <<".", "m", "p", "g">>,
      <<".", "3", "g", "p">> }

is_video_file_cased(name) == suffix(name) \in VIDEO_EXTENSIONS

is_video_file(name) == lower(suffix(name)) \in VIDEO_EXTENSIONS

\* the comparison of str that sorted() uses
RECURSIVE StrLess(_, _)
StrLess(a, b) ==
    IF b = <<>> THEN FALSE
    ELSE IF a = <<>> THEN TRUE
    ELSE IF ord(Head(a)) # ord(Head(b)) THEN ord(Head(a)) < ord(Head(b))
    ELSE StrLess(Tail(a), Tail(b))

RECURSIVE InsertSorted(_, _)
InsertSorted(x, list) ==
    IF list = <<>> THEN <<x>>
    ELSE IF StrLess(x, Head(list)) THEN <<x>> \o list
    ELSE <<Head(list)>> \o InsertSorted(x, Tail(list))

sorted_asis(list) == list

RECURSIVE sorted(_)
sorted(list) ==
    IF list = <<>> THEN <<>> ELSE InsertSorted(Head(list), sorted(Tail(list)))

\* the root directory "/r" and the reserved directory name, as characters
RootChars == <<"/", "r">>
FailuresChars == <<"_", "f", "a", "i", "l", "u", "r", "e", "s">>

\* str(Path(dirpath) / filename); dir is the list of directory names below
\* the root
RECURSIVE JoinPath(_, _)
JoinPath(base, names) ==
    IF names = <<>> THEN base
    ELSE JoinPath(base \o <<"/">> \o Head(names), Tail(names))

FilePath(file) == JoinPath(RootChars, Append(file.dir, file.name))

(***************************************************************************)
(* The files a scanned tree may hold, by directory (below the root) and    *)
(* name: /r/a.mp4, /r/B.MP4, /r/n.txt, /r/s/c.mkv, /r/_failures/x.mp4 and  *)
(* /r/s/_failures/y.mov.  A directory exists when it holds a file.         *)
(***************************************************************************)
TreeFiles ==
    { [dir |-> <<>>, name |-> <<"a", ".", "m", "p", "4">>],
      [dir |-> <<>>, name |-> <<"B", ".", "M", "P", "4">>],
      [dir |-> <<>>, name |-> <<"n", ".", "t", "x", "t">>],
      [dir |-> << <<"s">> >>, name |-> <<"c", ".", "m", "k", "v">>],
      [dir |-> << FailuresChars >>, name |-> <<"x", ".", "m", "p", "4">>],
      [dir |-> << <<"s">>, FailuresChars >>, name |-> <<"y", ".", "m", "o", "v">>] }

\* the orders in which the filesystem may enumerate a set of names
Orderings(names) ==
    {o \in [1 .. Cardinality(names) -> names] :
        \A i, j \in 1 .. Cardinality(names) : i # j => o[i] # o[j]}

filenames(files, dirpath) == {f.name : f \in {g \in files : g.dir = dirpath}}

dirnames(files, dirpath) ==
    {f.dir[Len(dirpath) + 1] :
        f \in {g \in files : /\ Len(g.dir) > Len(dirpath)
                             /\ SubSeq(g.dir, 1, Len(dirpath)) = dirpath}}

\* scan_directory(root_path) is called on a tree
CallScan ==
    /\ last.op \in {"none", "scan_directory"}
    /\ \E files \in SUBSET TreeFiles, is_dir \in BOOLEAN :
          /\ ~is_dir => files = {}
          /\ last' = [op |-> IF is_dir THEN "os.walk" ELSE "scan_directory",
                      files |-> files,
                      pending |-> IF is_dir THEN << <<>> >> ELSE <<>>,
                      video_files |-> <<>>,
                      ret |-> <<>>]

\* one iteration of "for dirpath, dirnames, filenames in os.walk(root)":
\* os.walk is top-down, so removing "_failures" from dirnames prunes it
WalkDir ==
    /\ last.op = "os.walk"
    /\ last.pending # <<>>
    /\ LET dirpath == Head(last.pending) IN
       \E fo \in Orderings(filenames(last.files, dirpath)),
          do \in Orderings(dirnames(last.files, dirpath)) :
          LET kept == SelectSeq(do, LAMBDA d : d # FailuresChars)
              found == SelectSeq(fo, is_video_file)
          IN  last' = [last EXCEPT
                  !.video_files =
                      @ \o [i \in 1 .. Len(found) |->
                               FilePath([dir |-> dirpath, name |-> found[i]])],
                  !.pending =
                      [i \in 1 .. Len(kept) |-> Append(dirpath, kept[i])]
                      \o Tail(@)]

\* "return sorted(video_files)"
ReturnScan ==
    /\ last.op = "os.walk"
    /\ last.pending = <<>>
    /\ last' = [last EXCEPT !.op = "scan_directory",
                            !.ret = sorted(last.video_files)]

ScannerInit == ExtractorInit /\ clips = {}

ScannerNext == CallScan \/ WalkDir \/ ReturnScan

ScannerSpec ==
    ScannerInit
    /\ [][ScannerNext
          /\ UNCHANGED <<storage, manager, hist, histValid, phase, cursor,
                         segment, playing, clips, extraction>>]_vars

(***************************************************************************)
(* The readers of CSVManager under a failing read.  Each reader iterates   *)
(* csv.reader(f) inside "try: ... except Exception: pass" and returns the  *)
(* collection it has filled so far.  A read error (OSError from the file,  *)
(* UnicodeDecodeError from the decoder) is raised by the iteration after   *)
(* the reader has yielded the first k rows, k < Len(csv_rows); k = 0       *)
(* covers open() raising.  Without error all rows are yielded.             *)
(***************************************************************************)
ReadOutcomes == {"ok", "error"}

RowsRead(rows, k) == SubSeq(rows, 1, k)

\* _scan_and_load_videos: the queue computed from what the read returned
QueueOf(labeled) == filter_unlabeled(scan_directory, labeled)

CallRead ==
    \E io \in ReadOutcomes, k \in 0 .. Len(csv_rows) :
        /\ manager
        /\ io = "ok" => k = Len(csv_rows)
        /\ io = "error" => (k = 0 \/ k < Len(csv_rows))
        /\ LET rows == RowsRead(csv_rows, k) IN
           last' = [op |-> "read", io |-> io, ret |-> None, at |-> k,
                    entries |-> EntriesOf(csv_exists, rows),
                    labeled |-> LabeledOf(csv_exists, rows),
                    stats |-> StatsOf(EntriesOf(csv_exists, rows)),
                    queue |-> QueueOf(LabeledOf(csv_exists, rows))]
        /\ UNCHANGED <<storage, manager, hist, histValid>>

ReaderNext == LedgerNext \/ CallRead

ReaderSpec == LedgerInit /\ [][ReaderNext /\ UNCHANGED appVars]_vars

(***************************************************************************)
(* C1: starting from an empty ledger, after any sequence of completed      *)
(* write_pass / write_fail / write_uncertain calls, get_all_entries()      *)
(* returns one entry per call, in call order, with the call's video path,  *)
(* its label code (1 = Pass, 0 = Fail, 2 = Uncertain) and its output path  *)
(* (none when the call gave the empty string); the file holds one record   *)
(* per call; constructing a CSVManager again on the file changes neither.  *)
(***************************************************************************)
LabelCode(op) ==
    CASE op = "write_pass" -> 1
      [] op = "write_fail" -> 0
      [] op = "write_uncertain" -> 2

ExpectedEntry(call) ==
    << call[2], LabelCode(call[1]), IF call[3] = "" THEN None ELSE Some(call[3]) >>

C1_EntriesInCallOrder ==
    histValid =>
        /\ get_all_entries = [i \in 1 .. Len(hist) |-> ExpectedEntry(hist[i])]
        /\ Len(csv_rows) = Len(hist)

C1_Witness ==
    /\ histValid
    /\ last.op = "open"
    /\ Len(hist) = 3
    /\ {hist[i][1] : i \in 1 .. 3} = {"write_pass", "write_fail", "write_uncertain"}
    /\ hist[1][2] # hist[2][2]
    /\ \E i \in 1 .. 3 : hist[i][1] = "write_fail" /\ hist[i][3] # ""

(***************************************************************************)
(* C2: a remove_last_entry() call that returns, made on a ledger whose     *)
(* entries are e1..en with n >= 1, returns en and leaves get_all_entries() *)
(* equal to e1..e(n-1); made on a ledger with no entries it returns None   *)
(* and leaves the file exactly as it was.                                  *)
(***************************************************************************)
C2_RemoveLastStep ==
    (last'.op = "remove_last_entry" /\ last'.io = "ok") =>
        IF get_all_entries = <<>>
        THEN /\ last'.ret = None
             /\ UNCHANGED storage
             /\ get_all_entries' = <<>>
        ELSE /\ last'.ret = Some(Last(get_all_entries))
             /\ get_all_entries' = Front(get_all_entries)

C2_RemoveLast == [][C2_RemoveLastStep]_vars

C2_Witness ==
    /\ last.op = "remove_last_entry"
    /\ last.io = "ok"
    /\ last.ret # None
    /\ Len(get_all_entries) = 2
    /\ get_all_entries[1] # get_all_entries[2]
    /\ Val(last.ret) # get_all_entries[2]

(***************************************************************************)
(* Steps of Spec, told by the handler that ran (last') and the state it    *)
(* ran in.                                                                 *)
(***************************************************************************)
Selecting == _segment_mode
BothSet == _segment_start # None /\ _segment_end # None
Span ==
    IF Val(_segment_start) <= Val(_segment_end)
    THEN Val(_segment_end) - Val(_segment_start)
    ELSE Val(_segment_start) - Val(_segment_end)

ConfirmStep == extraction = None /\ last'.op = "confirm"
ExtractorInvoked == extraction = None /\ extraction' # None
ExtractorReturned == extraction # None /\ last'.op = "extract"
FailRecordAppended(clip_path) ==
    /\ Len(csv_rows') = Len(csv_rows) + 1
    /\ csv_rows' = Append(csv_rows, Last(csv_rows'))
    /\ ReadEntries(<<Last(csv_rows')>>, <<>>)
           = << <<Val(_current_video), 0, clip_path>> >>

(***************************************************************************)
(* C3: when the segment state is Selecting with start and end set and at   *)
(* least 100 ms apart and the extractor returns success with a clip path,  *)
(* confirm (its ledger write completing) appends exactly one Fail record   *)
(* (current video, label 0, that clip path), the segment state becomes     *)
(* Inactive with start and end cleared, and the cursor advances by one.    *)
(* The extractor is invoked before the append: the step that invokes it    *)
(* leaves the ledger alone, and a Fail record is appended only by the step *)
(* in which it returns.  The append comes before the state leaves          *)
(* Selecting: confirm leaves Selecting only with the record appended, and  *)
(* when the write raises the state is still Selecting.                     *)
(***************************************************************************)
C3_ConfirmSuccessStep ==
    /\ (/\ ExtractorReturned /\ last'.success /\ last'.msg = ""
        /\ Selecting /\ BothSet /\ Span >= 100)
       => /\ last'.clip_path # None
          /\ FailRecordAppended(last'.clip_path)
          /\ ~_segment_mode' /\ _segment_start' = None /\ _segment_end' = None
          /\ _current_index' = _current_index + 1
          /\ UNCHANGED _video_queue
    /\ ExtractorInvoked => UNCHANGED <<storage, segment, cursor>>
    /\ (Len(csv_rows') > Len(csv_rows) /\ Last(csv_rows')[2] = "0")
       => ExtractorReturned /\ last'.success
    /\ (last'.op \in {"confirm", "extract"} /\ _segment_mode /\ ~_segment_mode')
       => FailRecordAppended(last'.clip_path)
    /\ (ExtractorReturned /\ last'.success /\ last'.msg = "exception")
       => UNCHANGED <<storage, segment, cursor>>

C3_ConfirmSuccess == [][C3_ConfirmSuccessStep]_vars

C3_Witness ==
    /\ last.op = "extract" /\ last.success /\ last.msg = ""
    /\ ~_segment_mode
    /\ _current_index = 2
    /\ phase = "review"
    /\ Len(get_all_entries) >= 2
    /\ Last(get_all_entries) = <<_video_queue[2], 0, last.clip_path>>

(***************************************************************************)
(* C4: when the extractor reports failure during confirm, the segment      *)
(* state stays Selecting with the same start and end, the ledger is as it  *)
(* was, the cursor and the current video are unchanged, and no extraction  *)
(* is left in progress, so confirm and cancel can be issued again.         *)
(***************************************************************************)
C4_ExtractFailureStep ==
    (ExtractorReturned /\ ~last'.success /\ last'.msg = "Extraction Failed")
    => /\ _segment_mode /\ _segment_mode'
       /\ UNCHANGED <<_segment_start, _segment_end>>
       /\ UNCHANGED storage
       /\ UNCHANGED cursor
       /\ extraction' = None /\ phase' = "review"

C4_ExtractFailure == [][C4_ExtractFailureStep]_vars

C4_Witness ==
    /\ last.op = "extract" /\ ~last.success /\ last.msg = "Extraction Failed"
    /\ _segment_mode
    /\ _segment_start = Some(500) /\ _segment_end = Some(100)
    /\ _current_index = 1
    /\ csv_rows # <<>>

(***************************************************************************)
(* C5: confirm issued in Selecting while start or end (or both) is unset   *)
(* is rejected as incomplete: the extractor is not invoked, the ledger is  *)
(* not written, and segment state, start, end, cursor and current video    *)
(* are unchanged.                                                          *)
(***************************************************************************)
C5_IncompleteStep ==
    (ConfirmStep /\ Selecting /\ ~BothSet)
    => /\ last'.msg = "Incomplete Segment"
       /\ extraction' = None
       /\ UNCHANGED <<storage, segment, cursor, clips, phase>>

C5_Incomplete == [][C5_IncompleteStep]_vars

C5_Witness ==
    /\ last.op = "confirm" /\ last.msg = "Incomplete Segment"
    /\ _segment_mode
    /\ _segment_start # None /\ _segment_end = None

(***************************************************************************)
(* C6: the range confirm passes to the extractor is [min(start, end),      *)
(* max(start, end)], whichever of the two marks is the larger.             *)
(***************************************************************************)
C6_RangeStep ==
    ExtractorInvoked
    => /\ BothSet
       /\ LET a == Val(_segment_start)
              b == Val(_segment_end)
              c == Val(extraction')
          IN  /\ c.start_ms <= c.end_ms
              /\ {c.start_ms, c.end_ms} = {a, b}
              /\ c.source_path = Val(_current_video)

C6_Range == [][C6_RangeStep]_vars

C6_Witness ==
    /\ extraction # None
    /\ _segment_start = Some(500) /\ _segment_end = Some(100)
    /\ Val(extraction).start_ms = 100 /\ Val(extraction).end_ms = 500

(***************************************************************************)
(* C7: with start and end set, confirm rejects the segment, without        *)
(* invoking the extractor and without changing any state, exactly when     *)
(* max(start, end) - min(start, end) < 100: a span of 99 ms or 0 ms is     *)
(* rejected, a span of 100 ms reaches the extractor.                       *)
(***************************************************************************)
C7_MinimumSpanStep ==
    (ConfirmStep /\ Selecting /\ BothSet)
    => IF Span < 100
       THEN /\ last'.msg = "Segment Too Short"
            /\ extraction' = None
            /\ UNCHANGED <<storage, segment, cursor, clips, phase, playing>>
       ELSE /\ extraction' # None
            /\ last'.msg = "Extracting clip..."

C7_MinimumSpan == [][C7_MinimumSpanStep]_vars

C7_Witness ==
    /\ extraction # None
    /\ BothSet /\ Span = 100

C7_WitnessRejected ==
    /\ last.op = "confirm" /\ last.msg = "Segment Too Short"
    /\ BothSet /\ Span = 99

(***************************************************************************)
(* C8: cancel in Selecting moves the segment state to Inactive with start  *)
(* and end discarded, invokes no extraction, writes and removes no ledger  *)
(* record, leaves the cursor and the current video unchanged, and resumes  *)
(* playback.                                                               *)
(***************************************************************************)
C8_CancelStep ==
    (last'.op = "cancel" /\ Selecting)
    => /\ ~_segment_mode' /\ _segment_start' = None /\ _segment_end' = None
       /\ extraction = None /\ extraction' = None
       /\ UNCHANGED <<storage, cursor, clips>>
       /\ playing'

C8_Cancel == [][C8_CancelStep]_vars

C8_Witness ==
    /\ last.op = "cancel" /\ last.msg = ""
    /\ ~_segment_mode /\ playing
    /\ _current_index = 1 /\ csv_rows # <<>>

(***************************************************************************)
(* C9: a fail action issued in Inactive enters Selecting, with start and   *)
(* end unset and playback paused, only if a video is loaded and the ffmpeg *)
(* check reports the tool available; when the tool is unavailable the      *)
(* state stays Inactive and ledger, cursor and current video are           *)
(* unchanged.                                                              *)
(***************************************************************************)
C9_FailBeginStep ==
    (last'.op = "fail" /\ ~Selecting)
    => /\ _segment_mode'
          => /\ _current_video # None
             /\ last'.available
             /\ _segment_start' = None /\ _segment_end' = None
             /\ ~playing'
       /\ (last'.msg # "ignored" /\ ~last'.available)
          => /\ ~_segment_mode'
             /\ UNCHANGED <<storage, cursor, segment>>

C9_FailBegin == [][C9_FailBeginStep]_vars

C9_Witness ==
    /\ last.op = "fail" /\ last.msg = "FFmpeg Not Found"
    /\ ~_segment_mode
    /\ _current_index = 1

C9_WitnessEntered ==
    /\ last.op = "fail" /\ last.msg = "" /\ _segment_mode /\ ~playing

(***************************************************************************)
(* C10: in Selecting, mark_start(t) sets start to t and mark_end(t) sets   *)
(* end to t, whatever was set before; mark_start leaves end unchanged,     *)
(* mark_end leaves start unchanged, and neither changes the segment-active *)
(* flag, the ledger, the cursor or the current video.                      *)
(***************************************************************************)
C10_MarkStep ==
    /\ (last'.op = "set_start" /\ Selecting)
       => /\ _segment_start' = Some(last'.position)
          /\ UNCHANGED <<_segment_end, _segment_mode, storage, cursor>>
    /\ (last'.op = "set_end" /\ Selecting)
       => /\ _segment_end' = Some(last'.position)
          /\ UNCHANGED <<_segment_start, _segment_mode, storage, cursor>>

C10_Mark == [][C10_MarkStep]_vars

C10_Witness ==
    /\ last.op = "set_end" /\ last.msg = ""
    /\ _segment_mode
    /\ _segment_start = Some(100)
    /\ _segment_end = Some(0)

(***************************************************************************)
(* C11: a pass action on a loaded video in Inactive (its ledger write      *)
(* completing) appends exactly one record (current video, label 1, no      *)
(* output path) to the ledger and advances the cursor by exactly one: the  *)
(* queue is kept, and either the video at the new index is loaded or, the  *)
(* queue being exhausted, completion is reported (the start dialog opens). *)
(* A pass on a loaded video in Inactive is never ignored.                  *)
(***************************************************************************)
PassStep == last'.op = "pass" /\ ~Selecting /\ _current_video # None

C11_PassStep ==
    /\ (PassStep /\ last'.msg = "")
       => /\ csv_rows' = Append(csv_rows, <<Val(_current_video), "1", "">>)
          /\ ReadEntries(<<Last(csv_rows')>>, <<>>)
                 = << <<Val(_current_video), 1, None>> >>
          /\ _current_index' = _current_index + 1
          /\ UNCHANGED _video_queue
          /\ IF _current_index + 1 < Len(_video_queue)
             THEN /\ _current_video' = Some(_video_queue[_current_index + 2])
                  /\ phase' = "review"
             ELSE phase' = "startup"
    /\ PassStep => last'.msg \in {"", "exception"}

C11_Pass == [][C11_PassStep]_vars

C11_Witness ==
    /\ last.op = "pass" /\ last.msg = ""
    /\ phase = "review"
    /\ _current_index = 1
    /\ Len(csv_rows) = 1
    /\ _current_video = Some(_video_queue[2])

C11_WitnessComplete ==
    /\ last.op = "pass" /\ last.msg = ""
    /\ phase = "startup"
    /\ _current_index = Len(_video_queue)
    /\ _current_index > 0

(***************************************************************************)
(* C12: an uncertain action that the reviewer confirms (the note dialog    *)
(* accepted, the note possibly empty) appends exactly one record (current  *)
(* video, label 2, no output path) to the ledger and advances the cursor   *)
(* by one.  Refuted: the handler calls write_uncertain with the note as a  *)
(* second argument, which the method does not take, so the call raises     *)
(* before anything is written and the cursor stays.                        *)
(***************************************************************************)
UncertainAccepted ==
    /\ last'.op = "uncertain"
    /\ last'.msg \notin {"ignored", "cancelled"}

C12_UncertainStep ==
    UncertainAccepted
       => /\ csv_rows' = Append(csv_rows, <<Val(_current_video), "2", "">>)
          /\ _current_index' = _current_index + 1

C12_Uncertain == [][C12_UncertainStep]_vars

(***************************************************************************)
(* C13 as stated: whenever the cursor index is > 0 and the session is      *)
(* Inactive, previous (its rewrite of the file completing) removes exactly *)
(* the last ledger entry, decrements the cursor by exactly one, leaves the *)
(* video queue unchanged and reloads the video at the new index.           *)
(***************************************************************************)
PreviousStep ==
    /\ last'.op = "previous" /\ last'.msg # "exception"
    /\ ~Selecting /\ _current_index > 0

PreviousUndoes ==
    /\ get_all_entries' = Front(get_all_entries)
    /\ Len(csv_rows') = Len(get_all_entries) - 1
    /\ _current_index' = _current_index - 1
    /\ UNCHANGED _video_queue
    /\ _current_video' = Some(_video_queue[_current_index])
    /\ phase' = "review" /\ playing'

C13_OriginalStep == PreviousStep => (get_all_entries # <<>> /\ PreviousUndoes)

C13_PreviousStep ==
    PreviousStep =>
        IF get_all_entries # <<>>
        THEN last'.msg = "" /\ PreviousUndoes
        ELSE /\ last'.msg = "Cannot Go Back"
             /\ UNCHANGED <<storage, cursor, phase>>

C13_WitnessCannot ==
    /\ last.op = "previous" /\ last.msg = "Cannot Go Back"
    /\ _current_index = 1
    /\ csv_rows = <<>>

(***************************************************************************)
(* C14: previous issued while the cursor index is 0 changes nothing: no    *)
(* ledger record is removed (the records of an earlier session are kept),  *)
(* and the cursor, the current video, the queue and the segment state are  *)
(* unchanged.                                                              *)
(***************************************************************************)
C14_AtFirstStep ==
    (last'.op = "previous" /\ _current_index = 0)
       => /\ UNCHANGED <<storage, cursor, segment, phase, playing, clips>>
          /\ last'.msg = IF Selecting THEN "ignored" ELSE "No Previous Video"

C14_AtFirst == [][C14_AtFirstStep]_vars

C14_Witness ==
    /\ last.op = "previous" /\ last.msg = "No Previous Video"
    /\ _current_index = 0
    /\ get_all_entries # <<>>
    /\ _current_video = Some(_video_queue[1])

(***************************************************************************)
(* C15: whenever previous removes a ledger entry, the removed entry's      *)
(* video path is the queue video immediately preceding the cursor          *)
(* (queue[index-1] before the decrement).  Refuted: a playback error       *)
(* advances the cursor without writing an entry, so the last entry may     *)
(* belong to an earlier video of the queue, or to an earlier session.      *)
(***************************************************************************)
PreviousRemoves == last'.op = "previous" /\ last'.msg = ""

C15_RemovedIsPrecedingStep ==
    PreviousRemoves
       => Last(get_all_entries)[1] = Item(_video_queue, _current_index - 1)

C15_RemovedIsPreceding == [][C15_RemovedIsPrecedingStep]_vars

(***************************************************************************)
(* C16: at session start the video queue equals the scanner's sorted       *)
(* output with every path of the ledger's labeled set removed, the order   *)
(* otherwise preserved; so no video that has an entry in the ledger (for   *)
(* instance one marked Pass in an earlier session on the same ledger and   *)
(* root) is in the queue of the session started.                           *)
(***************************************************************************)
Occurs(seq) == {seq[i] : i \in 1 .. Len(seq)}
PositionIn(seq, x) == CHOOSE i \in 1 .. Len(seq) : seq[i] = x

C16_QueueAtStartStep ==
    last'.op = "start"
       => /\ Occurs(_video_queue') = Occurs(scan_directory) \ get_labeled_videos'
          /\ \A i, j \in 1 .. Len(_video_queue') :
                i < j => PositionIn(scan_directory, _video_queue'[i])
                             < PositionIn(scan_directory, _video_queue'[j])
          /\ \A i \in 1 .. Len(get_all_entries') :
                /\ get_all_entries'[i][1] \notin Occurs(_video_queue')
                /\ normpath(get_all_entries'[i][1]) \notin Occurs(_video_queue')

C16_QueueAtStart == [][C16_QueueAtStartStep]_vars

C16_Witness ==
    /\ last.op = "start" /\ last.msg = ""
    /\ csv_rows = << <<"/r/a.mp4", "1", "">>, <<"/r/s/c.mkv", "1", "">> >>
    /\ _video_queue = <<"/r/b.mov">>
    /\ _current_video = Some("/r/b.mov")

C16_WitnessNormalized ==
    /\ last.op = "start"
    /\ csv_rows = << <<"/r/./b.mov", "1", "">> >>
    /\ _video_queue = <<"/r/a.mp4", "/r/s/c.mkv">>

(***************************************************************************)
(* C17: on a ledger whose rows are all records (a path and an integer      *)
(* label, as the append operations and remove_last_entry write them),      *)
(* after any sequence of appends and remove_last_entry calls,              *)
(* get_labeled_videos() equals the set of distinct normalized video paths  *)
(* occurring in get_all_entries(): a path is in the set iff at least one   *)
(* current entry has it, however many entries have it.  The operations     *)
(* keep the ledger such a ledger.                                          *)
(***************************************************************************)
IsRecord(row) == Len(row) >= 2 /\ int(row[2]) # None
AllRecords == \A i \in 1 .. Len(csv_rows) : IsRecord(csv_rows[i])
EntryPaths == {normpath(get_all_entries[i][1]) : i \in 1 .. Len(get_all_entries)}

C17_SameRows == AllRecords => get_labeled_videos = EntryPaths

C17_KeepsRecordsStep == AllRecords => AllRecords'

C17_LabeledSet == []C17_SameRows /\ [][C17_KeepsRecordsStep]_vars

C17_Witness ==
    /\ last.op = "remove_last_entry" /\ last.io = "ok" /\ last.ret # None
    /\ Len(get_all_entries) = 2
    /\ get_all_entries[1][1] = "/r//a.mp4"
    /\ get_all_entries[2][1] = "/r/a.mp4"
    /\ get_labeled_videos = {"/r/a.mp4"}

(***************************************************************************)
(* C18: after any sequence of ledger mutations (appends,                   *)
(* remove_last_entry), get_stats() equals a scan over the current entries: *)
(* total is the number of entries and passed / failed / uncertain the      *)
(* number of entries with label 1 / 0 / 2.  For a ledger written only      *)
(* through the append operations the counts are the numbers of completed   *)
(* write_pass / write_fail / write_uncertain calls and total = passed +    *)
(* failed + uncertain.  A completed append to a ledger of records adds one *)
(* to total and to its label's count; a removal takes one from total and   *)
(* from the count of the removed entry's label.                            *)
(***************************************************************************)
RECURSIVE Scan(_, _)
Scan(entries, label) ==
    IF entries = <<>> THEN 0
    ELSE (IF Head(entries)[2] = label THEN 1 ELSE 0) + Scan(Tail(entries), label)

Calls(op) == Cardinality({i \in 1 .. Len(hist) : hist[i][1] = op})

Bump(stats, label, d) ==
    [total |-> stats.total + d,
     passed |-> stats.passed + (IF label = 1 THEN d ELSE 0),
     failed |-> stats.failed + (IF label = 0 THEN d ELSE 0),
     uncertain |-> stats.uncertain + (IF label = 2 THEN d ELSE 0)]

C18_EqualsScan ==
    \A entries \in {get_all_entries} :
        \A stats \in {StatsOf(entries)} :
            /\ get_stats = stats
            /\ stats.total = Len(entries)
            /\ stats.passed = Scan(entries, 1)
            /\ stats.failed = Scan(entries, 0)
            /\ stats.uncertain = Scan(entries, 2)
            /\ histValid
               => /\ stats.passed = Calls("write_pass")
                  /\ stats.failed = Calls("write_fail")
                  /\ stats.uncertain = Calls("write_uncertain")
                  /\ stats.total = stats.passed + stats.failed + stats.uncertain

\* before, after: the entries read before and after the call
C18_MutationStep ==
    \A before \in {get_all_entries}, after \in {get_all_entries'} :
        /\ (/\ last'.op \in {"write_pass", "write_fail", "write_uncertain"}
            /\ last'.io = "ok" /\ AllRecords)
           => StatsOf(after) = Bump(StatsOf(before), LabelCode(last'.op), 1)
        /\ (last'.op = "remove_last_entry" /\ last'.io = "ok" /\ last'.ret # None)
           => StatsOf(after) = Bump(StatsOf(before), Val(last'.ret)[2], -1)

C18_Stats == []C18_EqualsScan /\ [][C18_MutationStep]_vars

C18_Witness ==
    /\ last.op = "remove_last_entry" /\ last.io = "ok" /\ last.ret # None
    /\ get_stats = [total |-> 2, passed |-> 1, failed |-> 1, uncertain |-> 0]
    /\ Val(last.ret)[2] = 2

C18_WitnessAppends ==
    /\ histValid
    /\ get_stats = [total |-> 3, passed |-> 1, failed |-> 1, uncertain |-> 1]

(***************************************************************************)
(* C19: in every ledger state reachable through the session's actions,     *)
(* each entry with label Fail (0) has a non-empty clip path and each entry *)
(* with label Pass (1) or Uncertain (2) has no output path; a Fail entry   *)
(* is appended only when the extractor has returned success, with the clip *)
(* path it returned, and that clip is then in the failures directory.      *)
(***************************************************************************)
PathFitsLabel(entry) ==
    /\ entry[2] = 0 => (entry[3] # None /\ Val(entry[3]) # "")
    /\ entry[2] \in {1, 2} => entry[3] = None

C19_EveryEntry ==
    LET entries == get_all_entries
        records == SelectSeq(csv_rows, IsRecord)
    IN  /\ \A i \in 1 .. Len(entries) : PathFitsLabel(entries[i])
        /\ \A i \in 1 .. Len(records) :
              PathFitsLabel(ReadEntries(<<records[i]>>, <<>>)[1])

C19_FailAppendedStep ==
    (Len(csv_rows') > Len(csv_rows) /\ Last(csv_rows')[2] = "0")
       => /\ ExtractorReturned /\ last'.success
          /\ last'.clip_path = Some(Last(csv_rows')[3])
          /\ Last(csv_rows')[3] \in clips'

C19_PathsByLabel == []C19_EveryEntry /\ [][C19_FailAppendedStep]_vars

C19_Witness ==
    /\ last.op = "extract" /\ last.msg = "" /\ last.success
    /\ Len(get_all_entries) = 2
    /\ get_all_entries[1][2] = 1 /\ get_all_entries[1][3] = None
    /\ get_all_entries[2][2] = 0 /\ get_all_entries[2][3] = last.clip_path
    /\ Val(last.clip_path) \in clips

(***************************************************************************)
(* C20: in a session started from a duplicate-free ledger (an empty one,   *)
(* or one left by earlier runs) no reachable state holds two entries, or   *)
(* two stored records, with the same video path, previous used or not: a   *)
(* label is written for the video at the cursor only, the queue holds no   *)
(* video that had an entry at the start, and the cursor returns to a video *)
(* only through previous, which removes the entry written for it.  So the  *)
(* ledger never holds more than one entry for a path without an undo.      *)
(***************************************************************************)
Distinct(seq) == Cardinality({seq[i] : i \in 1 .. Len(seq)}) = Len(seq)
EntryVideos(entries) == [i \in 1 .. Len(entries) |-> normpath(entries[i][1])]
RecordVideos(rows) ==
    LET records == SelectSeq(rows, LAMBDA row : Len(row) >= 2)
    IN  [i \in 1 .. Len(records) |-> normpath(records[i][1])]
DuplicateFree ==
    LET entries == EntryVideos(get_all_entries)
        records == RecordVideos(csv_rows)
    IN  Distinct(entries) /\ Distinct(records)

C20_NoSecondEntry == DuplicateFree

C20_Witness ==
    /\ last.op = "pass" /\ last.msg = ""
    /\ _current_index = 3
    /\ Len(get_all_entries) = 2
    /\ get_all_entries[1][1] = "/r/a.mp4"
    /\ get_all_entries[2][1] = "/r/s/c.mkv"
    /\ _video_queue = <<"/r/a.mp4", "/r/b.mov", "/r/s/c.mkv">>
    /\ DuplicateFree

(***************************************************************************)
(* C21: extract_clip invokes the tool in stream-copy mode first; if that   *)
(* invocation fails, by nonzero exit or by timeout, it invokes the tool    *)
(* once more in re-encode mode; it never makes a third invocation.         *)
(* Refuted: a stream-copy run that times out ends the extraction without   *)
(* the re-encode run.                                                      *)
(***************************************************************************)
ExtractReturned == last'.op = "extract_failure_clip" /\ ~last'.raised

C21_FallbackStep ==
    (ExtractReturned /\ last'.tool.ffmpeg)
       => /\ Len(last'.runs) \in {1, 2}
          /\ last'.runs[1] = "copy"
          /\ last'.tool.copy = "ok" => last'.runs = <<"copy">>
          /\ last'.tool.copy \in {"nonzero", "timeout"}
                => last'.runs = <<"copy", "reencode">>

C21_Fallback == [][C21_FallbackStep]_vars

(***************************************************************************)
(* C22: the clip extractor never raises past its boundary: for every       *)
(* outcome (tool missing, destination directory cannot be created, nonzero *)
(* exit, timeout, any other exception) extract_failure_clip returns a      *)
(* result value.  Refuted: the mkdir of the failures directory is made     *)
(* outside any try, so when the directory cannot be created the exception  *)
(* leaves extract_failure_clip.                                            *)
(***************************************************************************)
C22_NeverRaises == last.op = "extract_failure_clip" => ~last.raised

(***************************************************************************)
(* C23: extract_failure_clip never selects an output path that already     *)
(* exists: with the base name name_fail_{start_s}s-{end_s}s{ext} taken it  *)
(* tries the suffixes _1, _2, ... in increasing order and uses the first   *)
(* free name.  So the clip returned is a new file, every file the call     *)
(* writes is new, and no existing file is removed or written over; a       *)
(* second extraction with the same base name yields the name suffixed _1.  *)
(***************************************************************************)
ClipName(c, k) ==
    c.root_video_dir \o "/_failures/" \o PathStem(c.source_path) \o "_fail_"
        \o ToString(c.start_ms \div 1000) \o "s-"
        \o ToString(c.end_ms \div 1000) \o "s"
        \o (IF k = 0 THEN "" ELSE "_" \o ToString(k))
        \o PathSuffix(c.source_path)

FirstFree(c, files, path) ==
    \E k \in 0 .. Cardinality(files) :
        /\ path = ClipName(c, k)
        /\ \A j \in 0 .. k - 1 : ClipName(c, j) \in files

C23_FreshNameStep ==
    ExtractReturned
       => /\ clips \subseteq clips'
          /\ \A path \in clips' \ clips : FirstFree(Val(extraction), clips, path)
          /\ Cardinality(clips' \ clips) <= 1
          /\ last'.success
                => /\ Val(last'.clip_path) \notin clips
                   /\ Val(last'.clip_path) \in clips'

C23_FreshName == [][C23_FreshNameStep]_vars

C23_Witness ==
    /\ last.op = "extract_failure_clip" /\ last.success
    /\ last.clip_path = Some("/r/_failures/a_fail_0s-0s_1.mp4")
    /\ clips = {"/r/_failures/a_fail_0s-0s.mp4", "/r/_failures/a_fail_0s-0s_1.mp4"}

C23_WitnessSkips ==
    /\ last.op = "extract_failure_clip" /\ last.success
    /\ last.clip_path = Some("/r/_failures/a_fail_0s-0s_1.mp4")
    /\ clips = PriorClips

(***************************************************************************)
(* C24: if a ledger write raises during a labeling action (pass, the       *)
(* append after a successful extraction in confirm, or the rewrite in      *)
(* previous), the action is aborted with the cursor index, the current     *)
(* video, the segment selection state and the ledger's entries all         *)
(* unchanged.  Refuted for previous: the rewrite opens the file with 'w',  *)
(* which empties it, so a failure after the open leaves the cursor where   *)
(* it was but the ledger without its entries.                              *)
(***************************************************************************)
WriteRaised ==
    /\ last'.msg = "exception"
    /\ \/ last'.op \in {"pass", "previous"}
       \/ last'.op = "extract" /\ last'.success

C24_WriteRaisedStep ==
    WriteRaised
       => /\ UNCHANGED <<_current_index, _current_video, _video_queue, segment>>
          /\ get_all_entries' = get_all_entries

C24_WriteRaised == [][C24_WriteRaisedStep]_vars

(***************************************************************************)
(* C25: ledger writes are whole-record-or-nothing: when an append or the   *)
(* rewrite of remove_last_entry fails or the process ends inside it, the   *)
(* store afterwards holds whole records and equals the operation's         *)
(* pre-state or its post-state, never fewer entries than the post-state.   *)
(* Refuted for remove_last_entry: the file is emptied by open(.., 'w')     *)
(* before the remaining entries are written.                               *)
(***************************************************************************)
C25_WholeOrNothingStep ==
    /\ (last'.op \in {"write_pass", "write_fail", "write_uncertain"}
          /\ last'.io # "ok")
       => UNCHANGED storage
    /\ (last'.op = "remove_last_entry" /\ last'.io # "ok")
       => /\ \A i \in 1 .. Len(csv_rows') :
                \/ \E j \in 1 .. Len(csv_rows) : csv_rows'[i] = csv_rows[j]
                \/ \E j \in 1 .. Len(get_all_entries) :
                      csv_rows'[i] = RowOf(get_all_entries[j])
          /\ \/ get_all_entries' = get_all_entries
             \/ get_all_entries' = Front(get_all_entries)

C25_WholeOrNothing == [][C25_WholeOrNothingStep]_vars

(***************************************************************************)
(* C26: while one confirm (clip extraction) is outstanding no second       *)
(* confirm, cancel, mark or labeling handler starts: the extractor is not  *)
(* invoked before the previous invocation has returned, and the segment    *)
(* fields are not modified during an extraction.  extract_failure_clip is  *)
(* called synchronously on the GUI thread and the handler never re-enters  *)
(* the event loop before the call returns, so the only step an             *)
(* outstanding extraction allows is its own return, and the arguments of   *)
(* the call still describe the segment fields when it returns.             *)
(***************************************************************************)
C26_SegmentFrozen ==
    extraction # None
       => /\ _segment_mode
          /\ ~Incomplete(_segment_start, _segment_end)
          /\ _current_video # None
          /\ Val(extraction) =
                ExtractArgs(Range(Val(_segment_start), Val(_segment_end)))

C26_OutstandingStep ==
    /\ extraction # None => (extraction' = None /\ last'.op = "extract")
    /\ extraction' # None
          => (extraction = None /\ last'.op = "confirm" /\ UNCHANGED segment)

C26_OneConfirm == []C26_SegmentFrozen /\ [][C26_OutstandingStep]_vars

C26_Witness ==
    /\ extraction # None
    /\ last.op = "confirm"
    /\ Val(extraction).end_ms - Val(extraction).start_ms >= 100

\* the extraction has returned and the handler has finished
C26_WitnessReturned == extraction = None /\ last.op = "extract"

(***************************************************************************)
(* C27: for a store of well-formed rows mixed with malformed rows (fewer   *)
(* than two fields, or a non-integer label) get_all_entries returns        *)
(* exactly the well-formed rows in stored order and get_labeled_videos     *)
(* holds exactly the paths of the well-formed rows, rows after a           *)
(* malformed one included.  Refuted: int() raising on a label ends the     *)
(* loop of get_all_entries, so the rows after it are not returned, and     *)
(* get_labeled_videos takes the first field of every non-empty row         *)
(* without looking at the label.                                           *)
(***************************************************************************)
WellFormedRows == SelectSeq(csv_rows, IsRecord)

EntryOfRow(row) ==
    << row[1], Val(int(row[2])),
       IF Len(row) > 2 /\ row[3] # "" THEN Some(row[3]) ELSE None >>

C27_AllEntriesSkip ==
    get_all_entries =
        [i \in 1 .. Len(WellFormedRows) |-> EntryOfRow(WellFormedRows[i])]

C27_LabeledSkip ==
    get_labeled_videos =
        {normpath(WellFormedRows[i][1]) : i \in 1 .. Len(WellFormedRows)}

C27_SkipsMalformed == csv_exists => (C27_AllEntriesSkip /\ C27_LabeledSkip)

(***************************************************************************)
(* C28: if reading the store fails with an I/O error at any point,         *)
(* part-way through the file included, get_all_entries,                    *)
(* get_labeled_videos and get_stats surface no error and report no         *)
(* entries (empty list, empty set, zero counts), and the session starts    *)
(* with the full scanner output as its queue.  Refuted for an error after  *)
(* the first row: the except clause swallows the error but the rows read   *)
(* before it are returned.                                                 *)
(***************************************************************************)
C28_ReadErrorIsEmpty ==
    (last.op = "read" /\ last.io = "error")
       => /\ last.entries = <<>>
          /\ last.labeled = {}
          /\ last.stats = StatsOf(<<>>)
          /\ last.queue = scan_directory

(***************************************************************************)
(* C29: scan_directory(root) returns exactly the files under root whose    *)
(* extension is in the allow-list, compared case-insensitively, and that   *)
(* do not lie under a directory named _failures at any depth, as           *)
(* lexicographically sorted paths; the result is a function of the set of  *)
(* files present and not of the order in which the filesystem enumerates   *)
(* them.                                                                   *)
(***************************************************************************)
EndsWithFolded(name, ext) ==
    /\ Len(name) > Len(ext)
    /\ lower(SubSeq(name, Len(name) - Len(ext) + 1, Len(name))) = ext

UnderFailures(file) == \E i \in 1 .. Len(file.dir) : file.dir[i] = FailuresChars

ExpectedPaths(files) ==
    {FilePath(f) :
        f \in {g \in files :
                 /\ ~UnderFailures(g)
                 /\ \E ext \in VIDEO_EXTENSIONS : EndsWithFolded(g.name, ext)}}

C29_ScanResult ==
    last.op = "scan_directory"
       => /\ {last.ret[i] : i \in 1 .. Len(last.ret)} = ExpectedPaths(last.files)
          /\ Len(last.ret) = Cardinality(ExpectedPaths(last.files))
          /\ \A i, j \in 1 .. Len(last.ret) :
                i < j => StrLess(last.ret[i], last.ret[j])

\* a tree with an upper-case extension, a file of another type and a
\* _failures directory below the root's child, enumerated out of order
C29_Witness ==
    /\ last.op = "scan_directory"
    /\ last.files = TreeFiles
    /\ Len(last.ret) = 3
    /\ last.video_files # last.ret

(***************************************************************************)
(* C30: handling a playback error on the current video skips to the next   *)
(* video: for each video that fails to play the cursor advances by exactly *)
(* one, also when the player reports both an error and an invalid-media    *)
(* status for the same file, and no ledger entry is written for it.        *)
(* Refuted: both reports emit playback_error and the slot advances the     *)
(* cursor on each emission.                                                *)
(***************************************************************************)
C30_SkipOneStep ==
    last'.op = "playback_error"
       => /\ _current_index' = _current_index + 1
          /\ UNCHANGED <<storage, _video_queue>>

C30_SkipOne == [][C30_SkipOneStep]_vars

(***************************************************************************)
(* C31: the segment state gates which actions are valid.  While Selecting  *)
(* (_segment_mode), pass, uncertain, previous and a further fail are       *)
(* no-ops that leave ledger, cursor, current video, start and end          *)
(* unchanged; while Inactive, mark_start, mark_end and confirm are no-ops  *)
(* that leave start, end, ledger and cursor unchanged (and no extraction   *)
(* is begun).                                                              *)
(***************************************************************************)
C31_GatedStep ==
    /\ (_segment_mode /\ last'.op \in {"pass", "uncertain", "previous", "fail"})
          => UNCHANGED <<storage, cursor, segment, clips, extraction>>
    /\ (~_segment_mode /\ last'.op \in {"set_start", "set_end", "confirm"})
          => UNCHANGED <<storage, cursor, segment, clips, extraction>>

C31_Gated == [][C31_GatedStep]_vars

\* pass was pressed while Selecting with both marks set
C31_Witness ==
    /\ last.op = "pass"
    /\ _segment_mode
    /\ _segment_start # None /\ _segment_end # None

\* confirm was pressed while Inactive, with a video under review
C31_WitnessInactive ==
    /\ last.op = "confirm"
    /\ ~_segment_mode
    /\ phase = "review"
    /\ _current_index > 0

(***************************************************************************)
(* C32: every confirm that invokes the extractor returns control: each     *)
(* tool invocation ends by exit or by its timeout, after which the         *)
(* "Extracting clip..." dialog is closed and the segment state is Inactive *)
(* (the confirm succeeded) or Selecting with its marks kept (it failed);   *)
(* the session is not left waiting on an extraction.  Refuted through the  *)
(* exception of C22: when the call raises, _confirm_segment is left        *)
(* before progress.close().                                                *)
(***************************************************************************)
C32_ReturnsStep ==
    (extraction # None /\ last'.op = "extract")
       => /\ extraction' = None
          /\ last'.progress = "closed"
          /\ IF last'.success /\ last'.msg = ""
             THEN ~_segment_mode'
             ELSE _segment_mode' /\ UNCHANGED segment

C32_Returns == [][C32_ReturnsStep]_vars

(***************************************************************************)
(* C33: while the segment state is Selecting, the current video and the    *)
(* cursor index change only through a successful confirm, so that the      *)
(* marks, the Fail entry and the clip belong to the video on which the     *)
(* fail action was begun, under every interleaving of reviewer actions     *)
(* with playback-error callbacks.  Refuted: _on_playback_error advances    *)
(* the cursor and loads the next video whatever the segment state, and     *)
(* leaves segment mode and its marks as they are.                          *)
(***************************************************************************)
ConfirmCompleted == last'.op = "extract" /\ last'.success /\ last'.msg = ""

C33_CursorHeldStep ==
    (_segment_mode /\ ~ConfirmCompleted)
       => UNCHANGED <<_current_index, _current_video>>

C33_CursorHeld == [][C33_CursorHeldStep]_vars

(***************************************************************************)
(* C34: in every reachable session state 0 <= index <= len(queue); a       *)
(* labeling action only writes an entry for queue[index] with              *)
(* index < len(queue); and once index = len(queue) (completion reported)   *)
(* no action appends a ledger entry or moves the cursor beyond             *)
(* len(queue).  Refuted through the double playback-error report of C30:   *)
(* at the last video the second _next_video takes the index to             *)
(* len(queue) + 1.                                                         *)
(***************************************************************************)
C34_InRange == 0 <= _current_index /\ _current_index <= Len(_video_queue)

C34_WritesCurrentStep ==
    /\ (last'.op \in {"pass", "uncertain", "extract"}
          /\ Len(csv_rows') > Len(csv_rows))
       => /\ _current_index < Len(_video_queue)
          /\ csv_rows'[Len(csv_rows')][1] = Item(_video_queue, _current_index)
    /\ _current_index = Len(_video_queue)
       => /\ Len(csv_rows') <= Len(csv_rows)
          /\ _current_index' <= Len(_video_queue')

C34_CursorInRange == []C34_InRange /\ [][C34_WritesCurrentStep]_vars

(***************************************************************************)
(* C35: no video is passed over without a label: in every reachable        *)
(* session state each queue video at a position before the cursor has an   *)
(* entry in the ledger (the entries appended during the session minus      *)
(* those removed by previous are as many as the cursor index).  Refuted:   *)
(* _on_playback_error advances the cursor and writes nothing.              *)
(***************************************************************************)
LabeledNow == {get_all_entries[j][1] : j \in 1 .. Len(get_all_entries)}

C35_NoneSkipped ==
    \A i \in 0 .. _current_index - 1 :
        i < Len(_video_queue) => Item(_video_queue, i) \in LabeledNow

(***************************************************************************)
(* C36: clip files and Fail entries stay in one-to-one correspondence:     *)
(* in every reachable state each clip file created in the _failures        *)
(* directory during the session is the output path of exactly one Fail     *)
(* entry currently in the ledger, also after a failed extraction, after a  *)
(* failed ledger write following a successful extraction, and after a      *)
(* previous of a Fail label.  A file whose name an earlier run's ledger    *)
(* may name is left out, so that every file looked at was created in the   *)
(* session.  Refuted: no handler ever removes a clip file.                 *)
(***************************************************************************)
EarlierClips == UNION {ClipsNamed(rows) : rows \in PriorFiles}

FailEntriesFor(clip) ==
    {j \in 1 .. Len(get_all_entries) :
        /\ get_all_entries[j][2] = 0
        /\ get_all_entries[j][3] = Some(clip)}

C36_ClipsHaveEntries ==
    \A clip \in clips \ EarlierClips : Cardinality(FailEntriesFor(clip)) = 1

====
